---- MODULE Spec2Model ----
(***************************************************************************)
(* Model of brise_plandok/annotation/agreement.py: the loader that merges  *)
(* per-annotator spreadsheets into per-sentence records, the TSV export,   *)
(* the empty-sentence filter, the pairwise agreement engine, the vote      *)
(* synthesizer and the gold evaluator, run in the order main() runs them.  *)
(*                                                                         *)
(* Python dicts are modelled with their insertion order where the code     *)
(* iterates them (data, annot, the vocabularies); a Counter is a function  *)
(* on its key set.  Python's None is the string NoneVal.  The kappa VALUES *)
(* come from sklearn and are not modelled: the model records which pairs   *)
(* of annotators a kappa is computed for.                                  *)
(***************************************************************************)
EXTENDS Integers, Sequences, FiniteSets, TLC

VARIABLES pc, err, annotator_vocab, attr_vocab, data, annotator, i,
          nfiles, nrows, tsv, kappas, stats, gold_stats

vars == <<pc, err, annotator_vocab, attr_vocab, data, annotator, i,
          nfiles, nrows, tsv, kappas, stats, gold_stats>>

-----------------------------------------------------------------------------
(* Bounds of the model and the input alphabets.                            *)

MaxFiles == 3
MaxRows == 3

NoneVal == "<None>"

\* the (sentence id, text) pairs a data row may carry: s1 comes with either
\* text, so that two files can disagree on it
SenTexts == {<<"s1", "t1">>, <<"s1", "t2">>, <<"s2", "t1">>}
\* the (sentence id, text) pair whose rows take every combination of labels
FullSenText == <<"s1", "t1">>
\* annotator part of a file name, before lower()
RawAnnotators == {"gold", "Gold", "ann1", "ann2"}
\* what a label cell of a row may hold
CellValues == {NoneVal, "BBDachneigungMax", "DachneigungMax", "Widmung", "N/A"}

\* first cell of the header row
Headers == {"Sentence_ID", "ID"}

-----------------------------------------------------------------------------
(* Program constants.                                                      *)

IGNORE_EMPTY == TRUE

REPLACEMENT_PAIRS == {<<"BBDachneigungMax", "DachneigungMax">>}

ATTR_IGNORE ==
    {"AusnahmePruefungErforderlich", "WeitereBestimmungPruefungErforderlich",
     "ZuVorherigemSatzGehoerig", "Segmentierungsfehler", "NoAttribute",
     "N/A", "StrittigeBedeutung"}

\* row[2:12]: the ten cells after id and text
RestLen == 10

\* the quorum thresholds of add_votes, (1, 2, 3)
VoteNs == <<1, 2, 3>>

-----------------------------------------------------------------------------
(* Generic helpers: Python's sorted() on ints, str.lower(), set iteration. *)

RECURSIVE InsertSorted(_, _)
InsertSorted(s, x) ==
    IF s = <<>> THEN <<x>>
    ELSE IF x < Head(s) THEN <<x>> \o s
    ELSE <<Head(s)>> \o InsertSorted(Tail(s), x)

RECURSIVE SortedInts(_)
\* sorted(list of ints): ascending, duplicates kept
SortedInts(s) ==
    IF s = <<>> THEN <<>>
    ELSE InsertSorted(SortedInts(SubSeq(s, 1, Len(s) - 1)), s[Len(s)])

Range(s) == {s[k] : k \in 1..Len(s)}

\* every order in which Python may iterate a set (hash order is unspecified)
Orders(S) ==
    {s \in [1..Cardinality(S) -> S] : \A a \in S : \E k \in 1..Cardinality(S) : s[k] = a}

Lower(w) ==
    IF w = "Gold" THEN "gold" ELSE w

-----------------------------------------------------------------------------
(* tuw_nlp Vocabulary: words in insertion order, id = position, from 0.    *)

HasWord(v, w) == \E k \in 1..Len(v) : v[k] = w

get_word(v, id) == v[id + 1]

word_id(v, w) == (CHOOSE k \in 1..Len(v) : v[k] = w) - 1

\* the vocabulary after get_id(w, allow_new=True)
add_word(v, w) == IF HasWord(v, w) THEN v ELSE Append(v, w)

\* id_to_word.keys(), in insertion order
vocab_ids(v) == [k \in 1..Len(v) |-> k - 1]

-----------------------------------------------------------------------------
(* Sentence records.                                                       *)

EmptyCounter == [k \in {} |-> 0]

CounterGet(c, k) == IF k \in DOMAIN c THEN c[k] ELSE 0

CounterSet(c, k, n) == [x \in DOMAIN c \cup {k} |-> IF x = k THEN n ELSE c[x]]

AnnotHas(annot, a) == \E k \in 1..Len(annot) : annot[k].ann = a

AnnotGet(annot, a) == annot[CHOOSE k \in 1..Len(annot) : annot[k].ann = a].attrs

\* annot[a] = attrs on a dict: in place when the key exists, else appended
AnnotSet(annot, a, attrs) ==
    IF AnnotHas(annot, a)
    THEN [k \in 1..Len(annot) |->
            IF annot[k].ann = a THEN [ann |-> a, attrs |-> attrs] ELSE annot[k]]
    ELSE Append(annot, [ann |-> a, attrs |-> attrs])

InData(d, id) == \E k \in 1..Len(d) : d[k].id = id

SenIndex(d, id) == CHOOSE k \in 1..Len(d) : d[k].id = id

NoErr == [kind |-> "none", stage |-> "", sen |-> "", ann |-> -1, text |-> ""]

Error(kind, stage, sen, ann, text) ==
    [kind |-> kind, stage |-> stage, sen |-> sen, ann |-> ann, text |-> text]

-----------------------------------------------------------------------------
(* Loader.                                                                 *)

preprocess_attr(attr) ==
    IF \E p \in REPLACEMENT_PAIRS : p[1] = attr
    THEN (CHOOSE p \in REPLACEMENT_PAIRS : p[1] = attr)[2]
    ELSE attr

\* the attribute cells kept by gen_sens_from_file: non-empty, at an odd
\* 0-based index of the window, not ignored (as a set: load_data applies
\* set() to the sorted list at once)
row_attributes(rest) ==
    {rest[j + 1] : j \in {j \in 0..(Len(rest) - 1) :
        /\ rest[j + 1] # NoneVal
        /\ j % 2 = 1
        /\ rest[j + 1] \notin ATTR_IGNORE}}

\* a row's window with the first two label cells holding a and b; the cell
\* before a label holds its value, which is no label
Window(a, b) ==
    [j \in 1..RestLen |->
        IF j = 1 THEN "x" ELSE IF j = 2 THEN a ELSE IF j = 4 THEN b ELSE NoneVal]

\* the data rows the model feeds, <<sentence id, text, window>>: every
\* combination of two labels for FullSenText, at most the label Widmung for
\* the other sentence and the other text; and the blank row
Rows ==
    {<<FullSenText[1], FullSenText[2], Window(a, b)>> : a \in CellValues, b \in CellValues}
    \cup {<<st[1], st[2], Window(a, NoneVal)>> :
            st \in SenTexts \ {FullSenText}, a \in {NoneVal, "Widmung"}}
    \cup {<<NoneVal, NoneVal, Window(NoneVal, NoneVal)>>}

RECURSIVE intern_all(_, _)
\* attr_vocab after get_id(preprocess_attr(attr), allow_new=True) for each
\* attr of the sequence
intern_all(v, order) ==
    IF order = <<>> THEN v
    ELSE intern_all(add_word(v, preprocess_attr(Head(order))), Tail(order))

\* lines 224-226: the annotator's entry for the sentence
annot_entry(v, order) ==
    SortedInts([k \in 1..Len(order) |-> word_id(v, preprocess_attr(order[k]))])

RECURSIVE count_real(_, _)
\* lines 229-230
count_real(c, attrs) ==
    IF attrs = <<>> THEN c
    ELSE count_real(CounterSet(c, Head(attrs), CounterGet(c, Head(attrs)) + 1),
                    Tail(attrs))

RECURSIVE count_gold(_, _)
\* lines 232-234
count_gold(c, attrs) ==
    IF attrs = <<>> THEN c
    ELSE count_gold(IF Head(attrs) \in DOMAIN c THEN c
                    ELSE CounterSet(c, Head(attrs), 0), Tail(attrs))

\* the assertion of line 222 left out
already_annotated_unchecked(sen) == FALSE

\* line 222
already_annotated(sen) == AnnotHas(sen.annot, annotator)

\* lines 222-234 on the sentence's record
merge_annotation(sen, v, order) ==
    LET entry == annot_entry(v, order)
    IN [sen EXCEPT
         !.annot = AnnotSet(sen.annot, annotator, entry),
         !.attr_stats =
            IF get_word(annotator_vocab, annotator) # "gold"
            THEN count_real(sen.attr_stats, entry)
            ELSE count_gold(sen.attr_stats, entry)]

new_sentence(id, text) ==
    [id |-> id, text |-> text, annot |-> <<>>, attr_stats |-> EmptyCounter,
     full_agreement |-> "unset"]

Abort(e) ==
    /\ pc' = "aborted"
    /\ err' = e

Init ==
    /\ pc = "load"
    /\ err = NoErr
    /\ annotator_vocab = <<>>
    /\ attr_vocab = <<>>
    /\ data = <<>>
    /\ annotator = -1
    /\ i = 0
    /\ nfiles = 0
    /\ nrows = 0
    /\ tsv = [header |-> <<>>, rows |-> <<>>]
    /\ kappas = [gold |-> <<>>, attr |-> <<>>]
    /\ stats = <<>>
    /\ gold_stats = EmptyCounter

\* the file names the model feeds: name.split('_') and the extension
FileNames ==
    {[parts |-> <<"doc1", a>>, ext |-> "xlsx"] : a \in RawAnnotators}
    \cup {[parts |-> <<"doc2", "ann1", "20200101">>, ext |-> "xlsx"],
          [parts |-> <<"doc1">>, ext |-> "xlsx"],
          [parts |-> <<"doc1", "gold">>, ext |-> "csv"]}

\* lines 205-212 and the header row of the file (lines 253-255)
OpenFile(fn, header) ==
    /\ pc = "load"
    /\ nfiles < MaxFiles
    /\ nrows < MaxRows
    /\ nfiles' = nfiles + 1
    /\ UNCHANGED <<attr_vocab, data, nrows, tsv, kappas, stats, gold_stats>>
    /\ IF fn.ext # "xlsx"
       THEN /\ Abort(Error("AssertionError", "filetype", "", -1, ""))
            /\ UNCHANGED <<annotator_vocab, annotator, i>>
       ELSE IF Len(fn.parts) \notin {2, 3}
       THEN /\ Abort(Error("ValueError", "filename", "", -1, ""))
            /\ UNCHANGED <<annotator_vocab, annotator, i>>
       ELSE LET name == Lower(fn.parts[2])
                v == add_word(annotator_vocab, name)
            IN /\ annotator_vocab' = v
               /\ annotator' = word_id(v, name)
               /\ IF header # "Sentence_ID"
                  THEN /\ Abort(Error("AssertionError", "header", "", -1, ""))
                       /\ i' = 0
                  ELSE /\ i' = 1
                       /\ UNCHANGED <<pc, err>>

\* one data row of the open file: lines 257-270 and 215-234
LoadRow(sen_id, text, rest, order) ==
    /\ pc = "load"
    /\ i >= 1
    /\ nrows < MaxRows
    /\ nrows' = IF sen_id = NoneVal THEN nrows ELSE nrows + 1
    /\ i' = 2
    /\ UNCHANGED <<annotator_vocab, annotator, nfiles, tsv, kappas, stats, gold_stats>>
    /\ IF sen_id = NoneVal
       THEN /\ UNCHANGED <<attr_vocab, data>>
            /\ IF i = 1
               THEN UNCHANGED <<pc, err>>
               ELSE Abort(Error("AssertionError", "blank row", "", annotator, ""))
       ELSE IF InData(data, sen_id) /\ data[SenIndex(data, sen_id)].text # text
       THEN /\ Abort(Error("AssertionError", "changed text", sen_id, annotator, text))
            /\ UNCHANGED <<attr_vocab, data>>
       ELSE LET d == IF InData(data, sen_id) THEN data
                     ELSE Append(data, new_sentence(sen_id, text))
                k == SenIndex(d, sen_id)
                v == intern_all(attr_vocab, order)
            IN IF already_annotated(d[k])
               THEN /\ Abort(Error("AssertionError", "duplicate annotation",
                                   sen_id, annotator, text))
                    /\ UNCHANGED <<attr_vocab, data>>
               ELSE /\ attr_vocab' = v
                    /\ data' = [d EXCEPT ![k] = merge_annotation(d[k], v, order)]
                    /\ UNCHANGED <<pc, err>>

Load ==
    \/ \E fn \in FileNames, header \in Headers : OpenFile(fn, header)
    \/ \E row \in Rows :
         \E order \in Orders(row_attributes(row[3])) :
            LoadRow(row[1], row[2], row[3], order)

\* load_data returns; main goes on to its next stage
EndLoad(next) ==
    /\ pc = "load"
    /\ pc' = next
    /\ annotator' = -1
    /\ i' = 0
    /\ UNCHANGED <<err, annotator_vocab, attr_vocab, data, nfiles, nrows, tsv,
                   kappas, stats, gold_stats>>

-----------------------------------------------------------------------------
(* TSV export.                                                             *)

all_equal(values) ==
    IF values = <<>> THEN TRUE
    ELSE \A k \in 2..Len(values) : values[1] = values[k]

annot_values(annot) == [k \in 1..Len(annot) |-> annot[k].attrs]

PyBool(b) == IF b THEN "True" ELSE "False"

\* one cell of the annotator columns: ",".join(names) or 'no_attr'
tsv_cell(attrs) ==
    IF attrs # <<>>
    THEN [k \in 1..Len(attrs) |-> get_word(attr_vocab, attrs[k])]
    ELSE <<"no_attr">>

\* the columns of a data row; counts is the set of "name:count" items, whose
\* order is the iteration order of a set
get_tsv_line(sen) ==
    [id |-> sen.id,
     text |-> sen.text,
     cols |-> [k \in 1..Len(sen.annot) |-> tsv_cell(sen.annot[k].attrs)],
     counts |-> {<<get_word(attr_vocab, a), CounterGet(sen.attr_stats, a)>> :
                    a \in UNION {Range(sen.annot[k].attrs) : k \in 1..Len(sen.annot)}},
     full_agreement |-> sen.full_agreement]

\* line 281
set_full_agreement(sen) ==
    [sen EXCEPT !.full_agreement = PyBool(all_equal(annot_values(sen.annot)))]

\* lines 275-277: the annotator columns of the header
tsv_header == annotator_vocab

print_data ==
    /\ pc = "print_data"
    /\ data' = [k \in 1..Len(data) |-> set_full_agreement(data[k])]
    /\ tsv' = [header |-> tsv_header,
               rows |-> [k \in 1..Len(data) |-> get_tsv_line(set_full_agreement(data[k]))]]
    /\ pc' = IF IGNORE_EMPTY THEN "remove_empty" ELSE "measure_agreement"
    /\ UNCHANGED <<err, annotator_vocab, attr_vocab, annotator, i, nfiles, nrows,
                   kappas, stats, gold_stats>>

-----------------------------------------------------------------------------
(* Empty-sentence filter.                                                  *)

\* any(sen_data['annot'].values())
any_annotation(sen) == \E k \in 1..Len(sen.annot) : sen.annot[k].attrs # <<>>

remove_empty ==
    /\ pc = "remove_empty"
    /\ data' = SelectSeq(data, any_annotation)
    /\ pc' = "measure_agreement"
    /\ UNCHANGED <<err, annotator_vocab, attr_vocab, annotator, i, nfiles, nrows,
                   tsv, kappas, stats, gold_stats>>

-----------------------------------------------------------------------------
(* Agreement engine.                                                       *)

\* the (sentence index, annotator) pairs lacking an annot entry
missing_annotations(d, anns) ==
    {<<k, a>> \in (1..Len(d)) \X Range(anns) : ~AnnotHas(d[k].annot, a)}

\* the first of them in the order of the loops of lines 146-149
first_missing(d, anns) ==
    CHOOSE m \in missing_annotations(d, anns) :
        \A o \in missing_annotations(d, anns) :
            m[1] < o[1] \/ (m[1] = o[1] /\ m[2] <= o[2])

\* ratings[attr][ann][i] = 1 (0-based sentence index i)
rated(d, attr, ann, k) == attr \in Range(AnnotGet(d[k].annot, ann))

\* vec.any()
any_rating(d, attr, ann) == \E k \in 1..Len(d) : rated(d, attr, ann, k)

\* ratings[attr].sum()
attr_freq(d, attr, anns) ==
    Cardinality({<<a, k>> \in Range(anns) \X (1..Len(d)) : rated(d, attr, a, k)})

\* line 165 with > for >=: self-pairs are kept
skip_pair_strict(ann1, ann2) == ann1 > ann2

\* line 165: the pair (ann1, ann2) is skipped
skip_pair(ann1, ann2) == ann1 >= ann2

\* line 173: the pair's kappa goes to the gold group
is_gold_pair(ann1, ann2) ==
    \/ get_word(annotator_vocab, ann1) = "gold"
    \/ get_word(annotator_vocab, ann2) = "gold"

\* the pairs of lines 163-166 in the order of the two loops
annotator_pairs(anns) ==
    LET n == Len(anns)
        all == [k \in 1..(n * n) |-> <<anns[((k - 1) \div n) + 1], anns[((k - 1) % n) + 1]>>]
    IN SelectSeq(all, LAMBDA pr : ~skip_pair(pr[1], pr[2]))

\* lines 167-171 for a pair: 1.0 without calling sklearn when neither
\* annotator ever chose the attribute, cohen_kappa_score otherwise
kappa_of(d, attr, pr) ==
    [ann1 |-> pr[1], ann2 |-> pr[2],
     kappa |-> IF ~any_rating(d, attr, pr[1]) /\ ~any_rating(d, attr, pr[2])
               THEN "1.0" ELSE "cohen_kappa_score"]

gold_kappas_of(d, attr, anns) ==
    LET ps == SelectSeq(annotator_pairs(anns), LAMBDA pr : is_gold_pair(pr[1], pr[2]))
    IN [k \in 1..Len(ps) |-> kappa_of(d, attr, ps[k])]

attr_kappas_of(d, attr, anns) ==
    LET ps == SelectSeq(annotator_pairs(anns), LAMBDA pr : ~is_gold_pair(pr[1], pr[2]))
    IN [k \in 1..Len(ps) |-> kappa_of(d, attr, ps[k])]

\* attr_counts[attr]: how many sentences hold each attr_stats count
attr_counts_of(d, attr) ==
    LET counts == {d[k].attr_stats[attr] : k \in {k \in 1..Len(d) : attr \in DOMAIN d[k].attr_stats}}
    IN [c \in counts |->
          Cardinality({k \in 1..Len(d) :
              attr \in DOMAIN d[k].attr_stats /\ d[k].attr_stats[attr] = c})]

\* lines 188-190
stats_entry(d, attr, anns) ==
    [attr_freq |-> attr_freq(d, attr, anns),
     attr_name |-> get_word(attr_vocab, attr),
     gold_kappas |-> gold_kappas_of(d, attr, anns),
     attr_kappas |-> attr_kappas_of(d, attr, anns),
     attr_counts |-> attr_counts_of(d, attr)]

RECURSIVE insert_by_freq(_, _)
insert_by_freq(s, x) ==
    IF s = <<>> THEN <<x>>
    ELSE IF x.attr_freq > Head(s).attr_freq THEN <<x>> \o s
    ELSE <<Head(s)>> \o insert_by_freq(Tail(s), x)

RECURSIVE sort_stats(_)
\* stats.sort(key=lambda s: -s[0]), a stable sort
sort_stats(s) ==
    IF s = <<>> THEN <<>>
    ELSE insert_by_freq(sort_stats(SubSeq(s, 1, Len(s) - 1)), s[Len(s)])

\* line 179 divides by len(attr_kappas)
zero_division(attr_kappas) == Len(attr_kappas) = 0

measure_agreement ==
    /\ pc = "measure_agreement"
    /\ UNCHANGED <<annotator_vocab, attr_vocab, data, annotator, i, nfiles, nrows,
                   tsv, gold_stats>>
    /\ LET anns == vocab_ids(annotator_vocab)
           attrs == vocab_ids(attr_vocab)
       IN IF missing_annotations(data, anns) # {}
          THEN LET m == first_missing(data, anns)
               IN /\ Abort(Error("ValueError", "measure_agreement: no annotation",
                                 data[m[1]].id, m[2], ""))
                  /\ UNCHANGED <<kappas, stats>>
          ELSE IF attrs = <<>>
          THEN /\ pc' = "add_votes"
               /\ UNCHANGED <<err, kappas, stats>>
          ELSE IF zero_division(attr_kappas_of(data, attrs[1], anns))
          THEN /\ Abort(Error("ZeroDivisionError", "measure_agreement: avg", "", -1, ""))
               /\ kappas' = [gold |-> gold_kappas_of(data, attrs[1], anns),
                             attr |-> attr_kappas_of(data, attrs[1], anns)]
               /\ UNCHANGED stats
          ELSE /\ pc' = "add_votes"
               /\ kappas' = [gold |-> gold_kappas_of(data, attrs[Len(attrs)], anns),
                             attr |-> attr_kappas_of(data, attrs[Len(attrs)], anns)]
               /\ stats' = sort_stats([k \in 1..Len(attrs) |-> stats_entry(data, attrs[k], anns)])
               /\ UNCHANGED err

-----------------------------------------------------------------------------
(* Vote synthesizer.                                                       *)

vote_name(n) ==
    IF n = 1 THEN "min1" ELSE IF n = 2 THEN "min2" ELSE "min3"

RECURSIVE add_vote_names(_, _)
\* lines 115-117
add_vote_names(v, ns) ==
    IF ns = <<>> THEN v
    ELSE add_vote_names(add_word(v, vote_name(Head(ns))), Tail(ns))

\* lines 121-123: the annotators whose selections are counted
voters(real_annotators) ==
    SelectSeq(real_annotators, LAMBDA a : get_word(annotator_vocab, a) # "gold")

\* how many times the list holds x
occurrences(list, x) == Cardinality({k \in 1..Len(list) : list[k] = x})

RECURSIVE count_votes(_, _, _)
count_votes(sen, attr, anns) ==
    IF anns = <<>> THEN 0
    ELSE occurrences(AnnotGet(sen.annot, Head(anns)), attr)
         + count_votes(sen, attr, Tail(anns))

\* attr_counter[attr] after lines 120-125
attr_counter(sen, attr, real_annotators) ==
    count_votes(sen, attr, voters(real_annotators))

\* the keys of attr_counter
counted_attrs(sen, real_annotators) ==
    UNION {Range(AnnotGet(sen.annot, a)) : a \in Range(voters(real_annotators))}

\* lines 127-131 and the sorted() of line 134
vote_set(sen, n, real_annotators) ==
    LET chosen == {attr \in counted_attrs(sen, real_annotators) :
                      attr_counter(sen, attr, real_annotators) >= n}
    IN SortedInts(CHOOSE q \in Orders(chosen) : TRUE)

RECURSIVE write_votes(_, _, _, _)
\* lines 133-134
write_votes(sen, annot, ns, real_annotators) ==
    IF ns = <<>> THEN annot
    ELSE write_votes(sen,
            AnnotSet(annot, word_id(add_vote_names(annotator_vocab, VoteNs), vote_name(Head(ns))),
                     vote_set(sen, Head(ns), real_annotators)),
            Tail(ns), real_annotators)

\* the loop body leaving a sentence alone when no attribute was counted
add_votes_sentence_skipping(sen, real_annotators) ==
    IF counted_attrs(sen, real_annotators) = {} THEN sen
    ELSE [sen EXCEPT !.annot = write_votes(sen, sen.annot, VoteNs, real_annotators)]

\* the body of the loop of line 119 for one sentence
add_votes_sentence(sen, real_annotators) ==
    [sen EXCEPT !.annot = write_votes(sen, sen.annot, VoteNs, real_annotators)]

\* sen['annot'][ann] of line 124 raises KeyError
votes_key_error(sen, real_annotators) ==
    \E a \in Range(voters(real_annotators)) : ~AnnotHas(sen.annot, a)

RECURSIVE add_votes_loop(_, _, _)
\* the loop of line 119 from sentence k on: the data and the error it ends with
add_votes_loop(d, k, real_annotators) ==
    IF k > Len(d) THEN [data |-> d, err |-> NoErr]
    ELSE IF votes_key_error(d[k], real_annotators)
    THEN [data |-> d,
          err |-> Error("KeyError", "add_votes", d[k].id,
                        CHOOSE a \in Range(voters(real_annotators)) :
                           /\ ~AnnotHas(d[k].annot, a)
                           /\ \A b \in Range(voters(real_annotators)) :
                                 ~AnnotHas(d[k].annot, b) => a <= b,
                        "")]
    ELSE add_votes_loop([d EXCEPT ![k] = add_votes_sentence(d[k], real_annotators)],
                        k + 1, real_annotators)

add_votes ==
    /\ pc = "add_votes"
    /\ LET real_annotators == vocab_ids(annotator_vocab)
           r == add_votes_loop(data, 1, real_annotators)
       IN /\ annotator_vocab' = add_vote_names(annotator_vocab, VoteNs)
          /\ data' = r.data
          /\ err' = r.err
          /\ pc' = IF r.err = NoErr THEN "eval_against_gold" ELSE "aborted"
    /\ UNCHANGED <<attr_vocab, annotator, i, nfiles, nrows, tsv, kappas, stats,
                   gold_stats>>

-----------------------------------------------------------------------------
(* Gold evaluator.                                                         *)

ZeroFigures == [TP |-> 0, FN |-> 0, FP |-> 0]

\* the annotators the evaluator scores: all but gold, in vocabulary order
scored(gold_ann) ==
    SelectSeq(vocab_ids(annotator_vocab), LAMBDA a : a # gold_ann)

\* attr_stats[attr][ann][figure] += 1 on the defaultdict of lines 55-58
bump(st, attr, ann, figure) ==
    LET row == IF attr \in DOMAIN st THEN st[attr]
               ELSE [a \in Range(vocab_ids(annotator_vocab)) \ {word_id(annotator_vocab, "gold")}
                        |-> ZeroFigures]
        new == [row EXCEPT ![ann] =
                  IF figure = "TP" THEN [@ EXCEPT !.TP = @ + 1]
                  ELSE IF figure = "FN" THEN [@ EXCEPT !.FN = @ + 1]
                  ELSE [@ EXCEPT !.FP = @ + 1]]
    IN [x \in DOMAIN st \cup {attr} |-> IF x = attr THEN new ELSE st[x]]

RECURSIVE tp_fn(_, _, _)
\* lines 62-69 over the remaining (attr, ann) pairs of the two loops
tp_fn(st, sen, pairs) ==
    IF pairs = <<>> THEN [st |-> st, err |-> NoErr]
    ELSE LET attr == Head(pairs)[1]
             ann == Head(pairs)[2]
         IN IF ~AnnotHas(sen.annot, ann)
            THEN [st |-> st, err |-> Error("KeyError", "eval_against_gold", sen.id, ann, "")]
            ELSE tp_fn(bump(st, attr, ann,
                            IF attr \in Range(AnnotGet(sen.annot, ann)) THEN "TP" ELSE "FN"),
                       sen, Tail(pairs))

RECURSIVE fp_attrs(_, _, _, _)
\* lines 77-79 for one annotator
fp_attrs(st, gold_attrs, ann, attrs) ==
    IF attrs = <<>> THEN st
    ELSE fp_attrs(IF Head(attrs) \notin Range(gold_attrs)
                  THEN bump(st, Head(attrs), ann, "FP") ELSE st,
                  gold_attrs, ann, Tail(attrs))

RECURSIVE fp(_, _, _, _)
\* lines 72-79 over the remaining annotators
fp(st, sen, gold_attrs, anns) ==
    IF anns = <<>> THEN [st |-> st, err |-> NoErr]
    ELSE IF ~AnnotHas(sen.annot, Head(anns))
    THEN [st |-> st,
          err |-> Error("ValueError", "eval_against_gold: no annotation", sen.id,
                        Head(anns), "")]
    ELSE fp(fp_attrs(st, gold_attrs, Head(anns), AnnotGet(sen.annot, Head(anns))),
            sen, gold_attrs, Tail(anns))

\* the body of the loop of line 60 for one sentence
eval_sentence(st, sen, gold_ann) ==
    IF ~AnnotHas(sen.annot, gold_ann)
    THEN [st |-> st, err |-> Error("KeyError", "eval_against_gold", sen.id, gold_ann, "")]
    ELSE LET gold_attrs == AnnotGet(sen.annot, gold_ann)
             anns == scored(gold_ann)
             n == Len(anns)
             pairs == [k \in 1..(Len(gold_attrs) * n) |->
                         <<gold_attrs[((k - 1) \div n) + 1], anns[((k - 1) % n) + 1]>>]
             r == tp_fn(st, sen, pairs)
         IN IF r.err # NoErr THEN r ELSE fp(r.st, sen, gold_attrs, anns)

RECURSIVE eval_loop(_, _, _)
eval_loop(st, k, gold_ann) ==
    IF k > Len(data) THEN [st |-> st, err |-> NoErr]
    ELSE LET r == eval_sentence(st, data[k], gold_ann)
         IN IF r.err # NoErr THEN r ELSE eval_loop(r.st, k + 1, gold_ann)

RECURSIVE sum_figure(_, _, _, _)
sum_figure(st, todo, ann, figure) ==
    IF todo = {} THEN 0
    ELSE LET attr == CHOOSE a \in todo : TRUE
             x == IF figure = "TP" THEN st[attr][ann].TP
                  ELSE IF figure = "FN" THEN st[attr][ann].FN
                  ELSE st[attr][ann].FP
         IN x + sum_figure(st, todo \ {attr}, ann, figure)

\* lines 81-85: the 'total' pseudo-attribute
with_total(st, v, gold_ann) ==
    LET total == word_id(v, "total")
        row == [a \in Range(scored(gold_ann)) |->
                  [TP |-> sum_figure(st, DOMAIN st, a, "TP"),
                   FN |-> sum_figure(st, DOMAIN st, a, "FN"),
                   FP |-> sum_figure(st, DOMAIN st, a, "FP")]]
    IN [x \in DOMAIN st \cup {total} |-> IF x = total THEN row ELSE st[x]]

\* the ranking and printing of lines 87-108 change no state
eval_against_gold ==
    /\ pc = "eval_against_gold"
    /\ UNCHANGED <<annotator_vocab, data, annotator, i, nfiles, nrows, tsv, kappas, stats>>
    /\ IF ~HasWord(annotator_vocab, "gold")
       THEN /\ Abort(Error("KeyError", "eval_against_gold: gold", "", -1, ""))
            /\ UNCHANGED <<attr_vocab, gold_stats>>
       ELSE LET gold_ann == word_id(annotator_vocab, "gold")
                r == eval_loop(EmptyCounter, 1, gold_ann)
                v == add_word(attr_vocab, "total")
            IN IF r.err # NoErr
               THEN /\ Abort(r.err)
                    /\ gold_stats' = r.st
                    /\ UNCHANGED attr_vocab
               ELSE /\ pc' = "done"
                    /\ attr_vocab' = v
                    /\ gold_stats' = with_total(r.st, v, gold_ann)
                    /\ UNCHANGED err

Next ==
    \/ Load
    \/ EndLoad("print_data")
    \/ print_data
    \/ remove_empty
    \/ measure_agreement
    \/ add_votes
    \/ eval_against_gold

Spec == Init /\ [][Next]_vars

\* eval_against_gold called on the loader's output directly, or after
\* add_votes alone: the functions are public and main is one caller of them
NextEval ==
    \/ Load
    \/ EndLoad("add_votes")
    \/ EndLoad("eval_against_gold")
    \/ add_votes
    \/ eval_against_gold

SpecEval == Init /\ [][NextEval]_vars

-----------------------------------------------------------------------------
(* Vocabulary of the properties.                                           *)

AnnotatorIds == Range(vocab_ids(annotator_vocab))

AttrIds == Range(vocab_ids(attr_vocab))

VoteNames == {vote_name(VoteNs[k]) : k \in 1..Len(VoteNs)}

\* the annotators that come from files
RealIds == {a \in AnnotatorIds : get_word(annotator_vocab, a) \notin VoteNames}

NonGoldRealIds == {a \in RealIds : get_word(annotator_vocab, a) # "gold"}

NonGoldIds == {a \in AnnotatorIds : get_word(annotator_vocab, a) # "gold"}

Keys(annot) == {annot[k].ann : k \in 1..Len(annot)}

\* the annotator selected the attribute for the sentence
Selected(sen, a, attr) == AnnotHas(sen.annot, a) /\ attr \in Range(AnnotGet(sen.annot, a))

SortedSeqOfSet(S) == SortedInts(CHOOSE q \in Orders(S) : TRUE)

StrictlyIncreasing(list) == \A k \in 1..(Len(list) - 1) : list[k] < list[k + 1]

Terminated == pc \in {"done", "aborted"}

-----------------------------------------------------------------------------
(* C1 *)

\* The run was fed exactly two files, of annotators gold and ann1, each with
\* one data row for the same sentence, with the same text and the same
\* attribute names (no name of the replacement table among them, so equal
\* exported names are equal names in the files).
TwoIdenticalFiles ==
    /\ nfiles = 2
    /\ nrows = 2
    /\ Len(tsv.header) = 2
    /\ Range(tsv.header) = {"gold", "ann1"}
    /\ Len(tsv.rows) = 1
    /\ Len(tsv.rows[1].cols) = 2
    /\ tsv.rows[1].cols[1] = tsv.rows[1].cols[2]
    /\ "DachneigungMax" \notin Range(tsv.rows[1].cols[1])

\* C1: main on two single-sentence files of gold and ann1 with identical
\* text and attribute sets ends without an error, the sentence's
\* full_agreement being true.
C1_EndToEnd ==
    (Terminated /\ TwoIdenticalFiles)
        => (pc = "done" /\ err = NoErr /\ tsv.rows[1].full_agreement = "True")

-----------------------------------------------------------------------------
(* C2 *)

\* C2: when load_data has returned, attr_stats[a] of every sentence is the
\* number of non-gold annotators whose entry for the sentence holds a, and
\* an attribute gold selected is a key of attr_stats.
C2_AttrStats ==
    pc = "print_data" =>
        \A k \in 1..Len(data) : \A attr \in AttrIds :
            /\ CounterGet(data[k].attr_stats, attr)
                 = Cardinality({a \in NonGoldIds : Selected(data[k], a, attr)})
            /\ (\E a \in AnnotatorIds \ NonGoldIds : Selected(data[k], a, attr))
                 => attr \in DOMAIN data[k].attr_stats

-----------------------------------------------------------------------------
(* C3 *)

\* C3: when add_votes has returned, every sentence holds entries for min1,
\* min2 and min3 beside the real annotators' entries, and the entry of minN
\* is the sorted list of the attributes that at least N distinct non-gold
\* real annotators selected for the sentence.
C3_Votes ==
    pc = "eval_against_gold" =>
        \A k \in 1..Len(data) :
            /\ Cardinality(Keys(data[k].annot)) = Len(data[k].annot)
            /\ Cardinality(Keys(data[k].annot) \ RealIds) = Len(VoteNs)
            /\ \A j \in 1..Len(VoteNs) :
                 /\ HasWord(annotator_vocab, vote_name(VoteNs[j]))
                 /\ AnnotHas(data[k].annot, word_id(annotator_vocab, vote_name(VoteNs[j])))
                 /\ AnnotGet(data[k].annot, word_id(annotator_vocab, vote_name(VoteNs[j])))
                      = SortedSeqOfSet({attr \in AttrIds :
                            Cardinality({a \in NonGoldRealIds : Selected(data[k], a, attr)})
                                >= VoteNs[j]})

-----------------------------------------------------------------------------
(* C4 *)

Figures(attr, a) ==
    IF attr \in DOMAIN gold_stats THEN gold_stats[attr][a] ELSE ZeroFigures

GoldId == word_id(annotator_vocab, "gold")

\* C4: when eval_against_gold has returned, for every attribute and every
\* non-gold annotator TP is the number of sentences where gold and the
\* annotator both selected the attribute, FN the number where only gold did,
\* FP the number where only the annotator did.
C4_GoldCounts ==
    pc = "done" =>
        \A attr \in AttrIds \ {word_id(attr_vocab, "total")} : \A a \in NonGoldIds :
            /\ Figures(attr, a).TP = Cardinality({k \in 1..Len(data) :
                    Selected(data[k], GoldId, attr) /\ Selected(data[k], a, attr)})
            /\ Figures(attr, a).FN = Cardinality({k \in 1..Len(data) :
                    Selected(data[k], GoldId, attr) /\ ~Selected(data[k], a, attr)})
            /\ Figures(attr, a).FP = Cardinality({k \in 1..Len(data) :
                    ~Selected(data[k], GoldId, attr) /\ Selected(data[k], a, attr)})

-----------------------------------------------------------------------------
(* C5 *)

\* load_data stopped at a row of an annotator that had annotated the row's
\* sentence before
SecondSupply ==
    /\ pc = "aborted"
    /\ err.stage \in {"changed text", "duplicate annotation"}
    /\ InData(data, err.sen)
    /\ AnnotHas(data[SenIndex(data, err.sen)].annot, err.ann)

TotalEntries(d) ==
    Cardinality({<<k, j>> \in (1..Len(d)) \X (1..Len(annotator_vocab)) : j <= Len(d[k].annot)})

\* C5 as stated: a second annotation of a sentence by the same annotator
\* always ends load_data with the duplicate-annotation assertion error.
C5_DuplicateError ==
    SecondSupply => err.stage = "duplicate annotation"

\* C5 as amended: while load_data runs, no step changes an entry or a count
\* that is recorded; a data row that does not end the run adds exactly one
\* entry; and a second annotation of a sentence by the same annotator ends
\* the run with an assertion error and the data as they were: the
\* duplicate-annotation assertion when the row's text is the recorded one,
\* the changed-text assertion when it is not.
C5_NeverTwice ==
    [][pc = "load" =>
        /\ Len(data') >= Len(data)
        /\ \A k \in 1..Len(data) :
             /\ Len(data'[k].annot) >= Len(data[k].annot)
             /\ \A j \in 1..Len(data[k].annot) : data'[k].annot[j] = data[k].annot[j]
             /\ Len(data'[k].annot) = Len(data[k].annot)
                  => data'[k].attr_stats = data[k].attr_stats
             /\ Cardinality(Keys(data'[k].annot)) = Len(data'[k].annot)
        /\ (nrows' = nrows + 1 /\ pc' = "load")
             => TotalEntries(data') = TotalEntries(data) + 1
        /\ pc' = "aborted" => data' = data
        /\ SecondSupply' =>
             /\ err'.kind = "AssertionError"
             /\ (err'.stage = "duplicate annotation")
                  <=> (data'[SenIndex(data', err'.sen)].text = err'.text)
      ]_vars

\* load_data stopped on the duplicate-annotation assertion
C5_Witness ==
    /\ SecondSupply
    /\ err.stage = "duplicate annotation"
    /\ data[SenIndex(data, err.sen)].attr_stats # EmptyCounter

-----------------------------------------------------------------------------
(* C6 *)

EvalRan ==
    /\ HasWord(annotator_vocab, "gold")
    /\ \/ pc = "done"
       \/ pc = "aborted" /\ err.stage \in {"eval_against_gold", "eval_against_gold: no annotation"}

\* C6: when eval_against_gold meets a sentence for which some annotator of
\* the vocabulary has no entry, it ends with the missing-annotation
\* ValueError naming that sentence and an annotator without entry for it.
C6_MissingAnnotationError ==
    (EvalRan /\ missing_annotations(data, vocab_ids(annotator_vocab)) # {}) =>
        /\ pc = "aborted"
        /\ err.kind = "ValueError"
        /\ err.stage = "eval_against_gold: no annotation"
        /\ err.sen = data[first_missing(data, vocab_ids(annotator_vocab))[1]].id
        /\ ~AnnotHas(data[first_missing(data, vocab_ids(annotator_vocab))[1]].annot, err.ann)

-----------------------------------------------------------------------------
(* C7 *)

\* C7: when load_data has returned, every annot entry is strictly increasing
\* by attribute id, so that no id occurs twice in it.
C7_OrderedSet ==
    pc = "print_data" =>
        \A k \in 1..Len(data) : \A j \in 1..Len(data[k].annot) :
            StrictlyIncreasing(data[k].annot[j].attrs)

-----------------------------------------------------------------------------
(* C8 *)

\* C8: every data row of the export has one annotator column per annotator
\* of the header, and its k-th annotator column is the cell of the annotator
\* named by the k-th annotator column of the header.
C8_Columns ==
    pc = "remove_empty" =>
        \A q \in 1..Len(tsv.rows) :
            /\ Len(tsv.rows[q].cols) = Len(tsv.header)
            /\ \A k \in 1..Len(tsv.header) :
                 /\ AnnotHas(data[q].annot, word_id(annotator_vocab, tsv.header[k]))
                 /\ tsv.rows[q].cols[k]
                      = tsv_cell(AnnotGet(data[q].annot, word_id(annotator_vocab, tsv.header[k])))

-----------------------------------------------------------------------------
(* C9 *)

\* the pairs of a gold group and an inter-annotator group are all the
\* unordered pairs of distinct annotators, each once, split by gold
PairsOnce(gold_kappas, attr_kappas) ==
    LET all == gold_kappas \o attr_kappas
        n == Len(annotator_vocab)
    IN /\ 2 * Len(all) = n * (n - 1)
       /\ \A k \in 1..Len(all) :
            /\ all[k].ann1 # all[k].ann2
            /\ {all[k].ann1, all[k].ann2} \subseteq AnnotatorIds
       /\ \A k, j \in 1..Len(all) :
            k # j => {all[k].ann1, all[k].ann2} # {all[j].ann1, all[j].ann2}
       /\ \A a, b \in AnnotatorIds :
            a # b => \E k \in 1..Len(all) : {all[k].ann1, all[k].ann2} = {a, b}
       /\ \A k \in 1..Len(gold_kappas) :
            "gold" \in {get_word(annotator_vocab, gold_kappas[k].ann1),
                        get_word(annotator_vocab, gold_kappas[k].ann2)}
       /\ \A k \in 1..Len(attr_kappas) :
            "gold" \notin {get_word(annotator_vocab, attr_kappas[k].ann1),
                           get_word(annotator_vocab, attr_kappas[k].ann2)}

\* measure_agreement has built the kappa lists of an attribute
KappasBuilt ==
    \/ pc = "add_votes" /\ attr_vocab # <<>>
    \/ pc = "aborted" /\ err.kind = "ZeroDivisionError"

\* C9: for each attribute measure_agreement computes a kappa for every
\* unordered pair of distinct annotators exactly once, n(n-1)/2 values in
\* all, a pair being in the gold group iff one of its annotators is gold.
C9_PairsOnce ==
    KappasBuilt =>
        /\ PairsOnce(kappas.gold, kappas.attr)
        /\ \A k \in 1..Len(stats) : PairsOnce(stats[k].gold_kappas, stats[k].attr_kappas)
        /\ pc = "add_votes" => Len(stats) = Len(attr_vocab)

\* measure_agreement returned with three annotators, gold among them
C9_Witness ==
    /\ pc = "add_votes"
    /\ Len(annotator_vocab) = 3
    /\ HasWord(annotator_vocab, "gold")
    /\ Len(stats) = 2
    /\ Len(kappas.gold) = 2
    /\ Len(kappas.attr) = 1

-----------------------------------------------------------------------------
(* C10 *)

\* C10: in main's order of stages, when eval_against_gold is entered with a
\* gold annotator every annotator of the vocabulary, real or synthetic, has
\* an entry in every surviving sentence, and eval_against_gold never ends
\* on a missing annotation.
C10_NoMissingAtEval ==
    /\ (pc = "eval_against_gold" /\ HasWord(annotator_vocab, "gold"))
          => missing_annotations(data, vocab_ids(annotator_vocab)) = {}
    /\ err.stage \notin {"eval_against_gold", "eval_against_gold: no annotation"}

\* eval_against_gold is entered with gold, two annotators and the three vote
\* annotators, on a sentence only gold labelled
C10_Witness ==
    /\ pc = "eval_against_gold"
    /\ HasWord(annotator_vocab, "gold")
    /\ Len(annotator_vocab) = 6
    /\ Len(data) = 1
    /\ \A a \in NonGoldIds : AnnotGet(data[1].annot, a) = <<>>

====
